---- MODULE Spec2Model ----
(***************************************************************************)
(* A model of the DeepBook story pipeline (src/app/models.py) and of its   *)
(* driver run_app (src/app/__init__.py).                                   *)
(*                                                                         *)
(* The Story is a record of five fields.  Every stage operation, the image *)
(* batch and run_app are state machines over it; the language model and    *)
(* the image service are the environment: each call returns or raises, and *)
(* what it returns is drawn from a small set of responses.                 *)
(*                                                                         *)
(* Two specifications share the operations' steps:                         *)
(*   Spec     a caller that holds any Story, or constructs one, and        *)
(*            invokes one operation on it (what a sequence of operations   *)
(*            does follows from what each does to any Story);              *)
(*   SpecApp  one run of run_app.                                          *)
(***************************************************************************)
EXTENDS Integers, Sequences, FiniteSets, TLC

\* ---------------------------------------------------------------- bounds

\* The longest outline (number of chapter entries) a response may hold.
MaxOutline == 2

\* The longest character list a response may hold.
MaxChars == 2

\* ------------------------------------------------------------ data model

\* Python's None.
None == [tag |-> "None"]

\* Python values of the two types a ChapterTextModel.chapter can hold: the
\* declared int, or the str default "" of Field("") (models.py line 76).
IntVal(n) == [int |-> n]
StrVal(s) == [str |-> s]

\* The chapter numbers a generated outline may hold: enough of them for an
\* outline of distinct numbers, and for gaps and repetitions.
ChapterNos == 1..MaxOutline

\* MetaDataModel records: the five declared fields.
MetaDataModel(t) ==
    [title |-> t, author |-> "Wanda Wordsmith", year |-> 2023,
     themes |-> <<"friendship", "bravery">>, location |-> "Whispering Forest"]

\* The titles a metadata response may hold ("T0" is the title of a
\* metadata an earlier generation left in the Story).
Titles == {"T1"}

\* CharacterModel: the character generated in position i of the list (its
\* name stands for name, description and personality).
CharacterModel(i) == [name |-> i]

\* CharactersModel: an ordered list of characters.
CharactersModel(n) == [characters |-> [i \in 1..n |-> CharacterModel(i)]]

\* ChapterOutlineModel: the chapter number the model chose and the title of
\* the entry (the title stands for title and synopsis; it names the entry's
\* position in the generated outline).
ChapterOutlineModel(c, i) == [chapter |-> c, title |-> i]

\* BookOutlineModel: an ordered list of chapter outlines (synopsis, conflict
\* and resolution are strings no operation reads).  The chapter numbers are
\* whatever the model produced: unsorted, repeated or with gaps.
BookOutlineModel(cs) ==
    [outlines |-> [i \in 1..Len(cs) |-> ChapterOutlineModel(cs[i], i)]]

ChapterSeqs == UNION {[1..k -> ChapterNos] : k \in 0..MaxOutline}

\* FullTextModel(): chapters defaults to the empty list.
FullTextModel == [chapters |-> <<>>]

\* A Story whose text field defaults to an empty FullTextModel().
NewStoryWithEmptyText(p) ==
    [prompt |-> p, metadata |-> None, characters |-> None,
     outline |-> None, text |-> FullTextModel]

\* Story(prompt=p): the four Optional fields default to None.
NewStory(p) ==
    [prompt |-> p, metadata |-> None, characters |-> None,
     outline |-> None, text |-> None]

StageFields == <<"metadata", "characters", "outline", "text">>

\* A serialization that holds the seed prompt alone.
JsonSeedOnly(s) ==
    [prompt |-> s.prompt, metadata |-> None, characters |-> None,
     outline |-> None, text |-> None]

\* Story.json(): the serialization holds every field as it is now, so the
\* model keeps the serialized document as the Story value itself.
Json(s) == s

\* ------------------------------------------------- the language model

\* What one call llm(prompt) can do: raise (a failed model call) or return
\* a text.  A returned text is the JSON object it holds, as the record of
\* the attributes present in it, or Malformed when it is no JSON object.
Malformed == [tag |-> "Malformed"]
LlmRaise == [kind |-> "raise"]
LlmText(b) == [kind |-> "text", body |-> b]

\* A JSON object without attribute f.
Drop(r, f) == [g \in (DOMAIN r) \ {f} |-> r[g]]

\* The text the model writes for one chapter call: t names the call (the
\* outline position and the chapter identifier given in the prompt).
ChapterWords(i, c) == [pos |-> i, name |-> c]

\* The default of ChapterTextModel.text: the description string given as
\* the first positional argument of Field.
DefaultText == StrVal("The text for the chapter...")

\* A chapter number other than c that a response may hold.
OtherChapter(c) == (c % MaxOutline) + 1

\* The fields a schema declares, and those it declares without a default.
Fields(model) ==
    CASE model = "MetaDataModel" ->
           {"title", "author", "year", "themes", "location"}
      [] model = "CharactersModel" -> {"characters"}
      [] model = "BookOutlineModel" -> {"outlines"}
      [] model = "ChapterTextModel" -> {"chapter", "text"}

Required(model) ==
    CASE model = "ChapterTextModel" -> {}
      [] OTHER -> Fields(model)

Default(model, f) ==
    IF f = "chapter" THEN StrVal("") ELSE DefaultText

\* A parser that keeps only the first element of a list of strings.
ParserParseTruncatesThemes(model, body) ==
    IF body = Malformed \/ ~(Fields(model) \subseteq DOMAIN body)
    THEN [ok |-> FALSE, err |-> "ParseError"]
    ELSE [ok |-> TRUE,
          val |-> [f \in Fields(model) |->
                     IF f = "themes" THEN SubSeq(body[f], 1, 1)
                     ELSE body[f]]]

\* PydanticOutputParser(pydantic_object=model).parse(text): the record
\* decoded from the text, each field from the attribute of its name and a
\* field with a default from the default when the attribute is absent; it
\* raises on a text that is no JSON object or lacks a required attribute.
ParserParse(model, body) ==
    IF body = Malformed \/ ~(Required(model) \subseteq DOMAIN body)
    THEN [ok |-> FALSE, err |-> "ParseError"]
    ELSE [ok |-> TRUE,
          val |-> [f \in Fields(model) |->
                     IF f \in DOMAIN body THEN body[f]
                     ELSE Default(model, f)]]

\* Story._run_llm after the call was issued: the call's exception
\* propagates, a returned text is parsed.
RunLlmResult(model, out) ==
    IF out.kind = "raise"
    THEN [ok |-> FALSE, err |-> "ModelCallError"]
    ELSE ParserParse(model, out.body)

\* The texts the model may return to the call for a schema.
MetaDataBodies ==
    {MetaDataModel(t) : t \in Titles}
        \cup {Drop(MetaDataModel("T1"), "title"), Malformed}

CharactersBodies ==
    {CharactersModel(n) : n \in 0..MaxChars}
        \cup {Drop(CharactersModel(0), "characters"), Malformed}

OutlineBodies ==
    {BookOutlineModel(cs) : cs \in ChapterSeqs}
        \cup {Drop(BookOutlineModel(<<>>), "outlines"), Malformed}

ChapterBodies(i, c) ==
    LET full == [chapter |-> IntVal(c), text |-> ChapterWords(i, c)]
    IN  {full, [full EXCEPT !.chapter = IntVal(OtherChapter(c))],
         Drop(full, "chapter"), Drop(full, "text"), Malformed}

LlmOutcomes(bodies) == {LlmRaise} \cup {LlmText(b) : b \in bodies}

\* ------------------------------------------------------------- operations

SyncStages == {"add_metadata", "add_characters", "add_outline"}
AsyncStages ==
    {"add_metadata_async", "add_characters_async", "add_outline_async"}
SingleCallStages == SyncStages \cup AsyncStages
TextStages == {"add_text", "add_text_async"}
ImageBatch == "generate_all_character_images"
Operations == SingleCallStages \cup TextStages \cup {ImageBatch}

\* The field a stage assigns, the schema and the name it passes to _run_llm.
FieldOf(o) ==
    CASE o \in {"add_metadata", "add_metadata_async"} -> "metadata"
      [] o \in {"add_characters", "add_characters_async"} -> "characters"
      [] o \in {"add_outline", "add_outline_async"} -> "outline"
      [] o \in TextStages -> "text"

SchemaOf(o) ==
    CASE FieldOf(o) = "metadata" -> "MetaDataModel"
      [] FieldOf(o) = "characters" -> "CharactersModel"
      [] FieldOf(o) = "outline" -> "BookOutlineModel"
      [] FieldOf(o) = "text" -> "ChapterTextModel"

BodiesOf(o) ==
    CASE FieldOf(o) = "metadata" -> MetaDataBodies
      [] FieldOf(o) = "characters" -> CharactersBodies
      [] FieldOf(o) = "outline" -> OutlineBodies

\* ------------------------------------------------------------------ state

VARIABLES
    story,    \* the Story: prompt, metadata, characters, outline, text
    op,       \* the operation invoked last ("none" before the first,
              \* "Story" for the constructor)
    phase,    \* where it stands: "idle" (returned or raised), "llm" (a
              \* single-call stage waits for its call), "loop" (add_text
              \* waits for a chapter call), "gather" (a batch waits),
              \* "image" (generate_image runs its coroutine)
    outcome,  \* how the last operation ended: "none", "returned", "raised"
    pre,      \* the Story as it was when the last operation was invoked
    tasks,    \* the model calls of the last operation, one per unit of
              \* work in creation order (the tasks of a batch, the turns of
              \* add_text's loop, the one call of a single-call stage), and
              \* how each ended
    done,     \* the positions of the finished tasks of a batch, in
              \* completion order
    calls,    \* every external call issued so far, with the document it sent
    ret,      \* what generate_all_character_images returned
    nops,     \* the number of operations invoked so far
    app_pc,   \* run_app's position (NoApp: the Story has another caller)
    layout,   \* what run_app's Layout has been given so far
    issued,   \* how many times each external call was issued
    last,     \* the response _run_llm handled last: the schema, the task
              \* it was for and what the model call did
    seed,     \* the prompt given to the constructor Story(prompt=...)
    index,    \* the character index given to generate_image
    first     \* what an earlier execution of the text stage on an equal
              \* Story ended with (NoFirst: there was none)

vars == <<story, op, phase, outcome, pre, tasks, done, calls, ret, nops,
          app_pc, layout, issued, last, seed, index, first>>

NoResult == [tag |-> "NoResult"]

NoFirst == [tag |-> "NoFirst"]

\* The value of app_pc when the Story's caller is not run_app.
NoApp == [at |-> "none", stage |-> "none"]

\* self.<field> = value.
SetField(s, f, v) == [s EXCEPT ![f] = v]

\* One external call: its kind ("llm" or "image"), the operation and the
\* invocation that issued it, the name it was issued for (a field name, a
\* chapter number, a character index), the position of its task in the
\* batch (0 outside a batch) and the serialized Story it sent.
Call(kind, o, n, name, pos, s) ==
    [kind |-> kind, stage |-> o, inv |-> n, name |-> name, pos |-> pos,
     seen |-> Json(s)]

\* llm(...) and openai.Image.acreate(...): the calls cs are issued, each
\* counted once more.
NoCalls == [c \in {} |-> 0]

Issue(cs) ==
    /\ calls' = calls \cup cs
    /\ issued' = [c \in calls \cup cs |->
                    (IF c \in calls THEN issued[c] ELSE 0)
                        + (IF c \in cs THEN 1 ELSE 0)]

\* output = llm(...): what the model call of the task in position i did,
\* handed to the parser of the schema.
NoResponse == [schema |-> "none", pos |-> 0, out |-> LlmRaise]
Response(model, i, out) == [schema |-> model, pos |-> i, out |-> out]

\* A unit of work: not started, waiting for its call ("called", or "img"
\* for the image request), ended with a result or with an exception.
NewTask == [st |-> "new", res |-> None]
Called == [st |-> "called", res |-> None]
Returned(v) == [st |-> "ok", res |-> v]
Raised(e) == [st |-> "err", res |-> [err |-> e]]

\* The results collected as the tasks complete (asyncio.as_completed).
GatherAsCompleted(ts, dn) == [i \in 1..Len(ts) |-> ts[dn[i]].res]

\* asyncio.gather(*tasks): the results in the order of the awaitables given
\* to it, whatever the order dn in which they completed.
Gather(ts, dn) == [i \in 1..Len(ts) |-> ts[i].res]

\* sorted(results, key=lambda x: x[0]): ascending by the first component,
\* entries of equal key in their original order (Python's sort is stable).
\* An insertion that puts x before the entries of equal key: the sort it
\* gives is ascending but reverses entries of equal key.
RECURSIVE InsertByKeyUnstable(_, _)
InsertByKeyUnstable(x, s) ==
    IF s = <<>> THEN <<x>>
    ELSE IF s[1][1] < x[1]
         THEN <<s[1]>> \o InsertByKeyUnstable(x, Tail(s))
         ELSE <<x>> \o s

RECURSIVE InsertByKey(_, _)
InsertByKey(x, s) ==
    IF s = <<>> THEN <<x>>
    ELSE IF s[1][1] <= x[1]
         THEN <<s[1]>> \o InsertByKey(x, Tail(s))
         ELSE <<x>> \o s

\* The results left in the order gather gave them.
Unsorted(r) == r

RECURSIVE Sorted(_)
Sorted(r) ==
    IF r = <<>> THEN <<>>
    ELSE InsertByKey(r[Len(r)], Sorted(SubSeq(r, 1, Len(r) - 1)))

\* for _, chapter_text in sorted_results: self.text.chapters.append(...)
AppendChapters(s, rs) ==
    [s EXCEPT !.text.chapters = @ \o [i \in 1..Len(rs) |-> rs[i][2]]]

\* self.text.chapters.append(res)
AppendChapter(s, ct) == [s EXCEPT !.text.chapters = Append(@, ct)]

\* What begins with every invocation.
Begin(o) ==
    /\ phase = "idle"
    /\ op' = o
    /\ pre' = story
    /\ nops' = nops + 1
    /\ done' = <<>>
    /\ UNCHANGED <<last, seed, first>>

\* ------------------------------------------------ the single-call stages

\* A stage that assigns the field of another stage (add_characters
\* assigning self.metadata).
StageCommitWrongField(s, o, r) ==
    IF r.ok
    THEN SetField(s, IF FieldOf(o) = "characters" THEN "metadata"
                     ELSE FieldOf(o), r.val)
    ELSE s

\* self.<field> = self._run_llm(...): the field is assigned when _run_llm
\* returned and left alone when it raised.
StageCommit(s, o, r) == IF r.ok THEN SetField(s, FieldOf(o), r.val) ELSE s

\* A stage that catches the exception of _run_llm and returns.
StageOutcomeSwallows(r) == "returned"

\* A stage ends as _run_llm ends: no stage catches an exception.
StageOutcome(r) == IF r.ok THEN "returned" ELSE "raised"

\* add_metadata, add_characters, add_outline and their _async variants, up
\* to the model call: _run_llm serializes the Story and calls the model.
\* (The _async variants run the same _run_llm in a worker thread and wait.)
StartStage(o) ==
    /\ o \in SingleCallStages
    /\ Begin(o)
    /\ phase' = "llm"
    /\ outcome' = "none"
    /\ tasks' = <<Called>>
    /\ ret' = NoResult
    /\ Issue({Call("llm", o, nops + 1, StrVal(FieldOf(o)), 0, story)})
    /\ UNCHANGED <<story, index>>

\* A stage that issues its model call again when the call or the parse
\* failed.
StageReturnRetries ==
    /\ phase = "llm"
    /\ op \in SingleCallStages
    /\ \E out \in LlmOutcomes(BodiesOf(op)) :
          LET r == RunLlmResult(SchemaOf(op), out)
          IN  /\ last' = Response(SchemaOf(op), 1, out)
              /\ IF r.ok
                 THEN /\ story' = SetField(story, FieldOf(op), r.val)
                      /\ outcome' = "returned"
                      /\ tasks' = <<Returned(r.val)>>
                      /\ phase' = "idle"
                      /\ UNCHANGED <<calls, issued>>
                 ELSE /\ Issue({Call("llm", op, nops, StrVal(FieldOf(op)), 0,
                                     story)})
                      /\ UNCHANGED <<story, outcome, tasks, phase>>
    /\ UNCHANGED <<op, pre, done, ret, nops, app_pc, layout, seed, index, first>>

\* The model call ends: the response is parsed and the field assigned, or
\* the exception propagates.
StageReturn ==
    /\ phase = "llm"
    /\ op \in SingleCallStages
    /\ \E out \in LlmOutcomes(BodiesOf(op)) :
          LET r == RunLlmResult(SchemaOf(op), out)
          IN  /\ story' = StageCommit(story, op, r)
              /\ outcome' = StageOutcome(r)
              /\ tasks' = <<IF r.ok THEN Returned(r.val) ELSE Raised(r.err)>>
              /\ last' = Response(SchemaOf(op), 1, out)
    /\ phase' = "idle"
    /\ UNCHANGED <<op, pre, done, calls, issued, ret, nops, app_pc, layout,
                   seed, index, first>>

\* --------------------------------------------------------- the text stage

\* The model gives the same response for the same outline entry: in an
\* execution that follows an earlier one on an equal Story, the call for
\* entry i ends as it did then.
Answers(i, r) ==
    IF first = NoFirst THEN TRUE ELSE r.ok /\ r.val = first.records[i]

\* self.text = FullTextModel(): the first statement of add_text and of
\* add_text_async, before self.outline is read.
ResetText(s) == SetField(s, "text", FullTextModel)

\* The outline entry in position i.
Entry(s, i) == s.outline.outlines[i]

\* add_text up to its first model call.  self.outline.outlines raises
\* AttributeError when the outline is None; an empty outline ends the loop
\* at once.
StartAddText ==
    /\ Begin("add_text")
    /\ story' = ResetText(story)
    /\ ret' = NoResult
    /\ UNCHANGED index
    /\ IF story.outline = None
       THEN /\ phase' = "idle" /\ outcome' = "raised"
            /\ tasks' = <<>>
            /\ UNCHANGED <<calls, issued>>
       ELSE IF Len(story.outline.outlines) = 0
       THEN /\ phase' = "idle" /\ outcome' = "returned"
            /\ tasks' = <<>>
            /\ UNCHANGED <<calls, issued>>
       ELSE /\ phase' = "loop"
            /\ outcome' = "none"
            /\ tasks' = [i \in 1..Len(story.outline.outlines) |->
                           IF i = 1 THEN Called ELSE NewTask]
            /\ Issue({Call("llm", "add_text", nops + 1,
                            IntVal(Entry(story, 1).chapter), 1, story')})

\* One turn of add_text's loop: the call for the next outline entry ends;
\* its record is appended and the call for the following entry is issued
\* (with the Story as it is then), or the exception leaves the loop.
AddTextStep ==
    /\ phase = "loop"
    /\ op = "add_text"
    /\ LET i == Len(story.text.chapters) + 1
           k == Len(story.outline.outlines)
       IN  \E out \in LlmOutcomes(ChapterBodies(i, Entry(story, i).chapter)) :
             LET r == RunLlmResult("ChapterTextModel", out)
             IN  /\ Answers(i, r)
                 /\ last' = Response("ChapterTextModel", i, out)
                 /\ IF ~r.ok
                    THEN /\ phase' = "idle"
                         /\ outcome' = "raised"
                         /\ tasks' = [tasks EXCEPT ![i] = Raised(r.err)]
                         /\ UNCHANGED <<story, calls, issued>>
                    ELSE /\ story' = AppendChapter(story, r.val)
                         /\ IF i < k
                            THEN /\ Issue({Call("llm", "add_text", nops,
                                                 IntVal(Entry(story, i + 1)
                                                            .chapter),
                                                 i + 1, story')})
                                 /\ tasks' = [tasks EXCEPT
                                                ![i] = Returned(r.val),
                                                ![i + 1] = Called]
                                 /\ UNCHANGED <<phase, outcome>>
                            ELSE /\ phase' = "idle"
                                 /\ outcome' = "returned"
                                 /\ tasks' = [tasks EXCEPT
                                                ![i] = Returned(r.val)]
                                 /\ UNCHANGED <<calls, issued>>
    /\ UNCHANGED <<op, pre, done, ret, nops, app_pc, layout, seed, index, first>>

\* add_text_async up to asyncio.gather: one task per outline entry, none
\* of them started.  gather of no task returns at once.
StartAddTextAsync ==
    /\ Begin("add_text_async")
    /\ story' = ResetText(story)
    /\ ret' = NoResult
    /\ UNCHANGED <<calls, issued, index>>
    /\ IF story.outline = None
       THEN phase' = "idle" /\ outcome' = "raised" /\ tasks' = <<>>
       ELSE IF Len(story.outline.outlines) = 0
       THEN phase' = "idle" /\ outcome' = "returned" /\ tasks' = <<>>
       ELSE /\ phase' = "gather"
            /\ outcome' = "none"
            /\ tasks' = [i \in 1..Len(story.outline.outlines) |-> NewTask]

\* generate_chapter_text, first half: the worker thread of task i runs
\* _run_llm, which serializes the Story as it is now and calls the model.
\* The thread runs whether or not add_text_async is still waiting.
ChapterIssue(i) ==
    /\ op = "add_text_async"
    /\ tasks[i].st = "new"
    /\ tasks' = [tasks EXCEPT ![i].st = "called"]
    /\ Issue({Call("llm", op, nops, IntVal(Entry(story, i).chapter), i,
                    story)})
    /\ UNCHANGED <<story, op, phase, outcome, pre, done, ret, nops, app_pc,
                   layout, last, seed, index, first>>

\* A task that appends its chapter to self.text.chapters itself, as soon
\* as its call has returned.
ChapterCompleteCommits(i) ==
    /\ op = "add_text_async"
    /\ tasks[i].st = "called"
    /\ \E out \in LlmOutcomes(ChapterBodies(i, Entry(story, i).chapter)) :
          LET r == RunLlmResult("ChapterTextModel", out)
          IN  /\ tasks' = [tasks EXCEPT ![i] =
                            IF r.ok
                            THEN Returned(<<Entry(story, i).chapter, r.val>>)
                            ELSE Raised(r.err)]
              /\ story' = IF r.ok THEN AppendChapter(story, r.val) ELSE story
              /\ last' = Response("ChapterTextModel", i, out)
    /\ done' = Append(done, i)
    /\ UNCHANGED <<op, phase, outcome, pre, calls, issued, ret, nops, app_pc,
                   layout, seed, index, first>>

\* generate_chapter_text, second half: the call of task i ends; the task
\* returns (outline.chapter, chapter_text) or raises.
ChapterComplete(i) ==
    /\ op = "add_text_async"
    /\ tasks[i].st = "called"
    /\ \E out \in LlmOutcomes(ChapterBodies(i, Entry(story, i).chapter)) :
          LET r == RunLlmResult("ChapterTextModel", out)
          IN  /\ Answers(i, r)
              /\ tasks' = [tasks EXCEPT ![i] =
                             IF r.ok
                             THEN Returned(<<Entry(story, i).chapter, r.val>>)
                             ELSE Raised(r.err)]
              /\ last' = Response("ChapterTextModel", i, out)
    /\ done' = Append(done, i)
    /\ UNCHANGED <<story, op, phase, outcome, pre, calls, issued, ret, nops,
                   app_pc, layout, seed, index, first>>

\* The image batch gathered with return_exceptions=True and the failures
\* filtered out: it returns the results of the tasks that succeeded.
GatherRaisePartial ==
    /\ phase = "gather"
    /\ \E i \in DOMAIN tasks : tasks[i].st = "err"
    /\ \A i \in DOMAIN tasks : tasks[i].st # "new" \/ op = "add_text_async"
    /\ phase' = "idle"
    /\ IF op = ImageBatch
       THEN /\ \A i \in DOMAIN tasks : tasks[i].st \in {"ok", "err"}
            /\ outcome' = "returned"
            /\ ret' = LET oks == SelectSeq(tasks, LAMBDA t : t.st = "ok")
                      IN  [value |-> [i \in 1..Len(oks) |-> oks[i].res]]
       ELSE outcome' = "raised" /\ ret' = ret
    /\ UNCHANGED <<story, op, pre, tasks, done, calls, issued, nops, app_pc,
                   layout, last, seed, index, first>>

\* A join that takes a task's exception as its result and raises nothing
\* while it waits: it can raise only once every task has returned.
GatherRaiseReadyWhenAllReturned ==
    /\ phase = "gather"
    /\ \E i \in DOMAIN tasks : tasks[i].st = "err"
    /\ \A i \in DOMAIN tasks : tasks[i].st = "ok"

\* When await asyncio.gather(*tasks) raises: a task has raised (in the
\* image batch every coroutine has been started by then).
GatherRaiseReady ==
    /\ phase = "gather"
    /\ \E i \in DOMAIN tasks : tasks[i].st = "err"
    /\ \A i \in DOMAIN tasks : tasks[i].st # "new" \/ op = "add_text_async"

\* When await asyncio.gather(*tasks) returns: every task has returned.
GatherReturnReady ==
    /\ phase = "gather"
    /\ \A i \in DOMAIN tasks : tasks[i].st = "ok"

\* await asyncio.gather(*tasks) raises the exception of the first task that
\* raised; the other tasks are not cancelled.
GatherRaise ==
    /\ GatherRaiseReady
    /\ phase' = "idle"
    /\ outcome' = "raised"
    /\ UNCHANGED <<story, op, pre, tasks, done, calls, issued, ret, nops,
                   app_pc, layout, last, seed, index, first>>

\* Every task returned: the results are sorted by chapter number and
\* appended to self.text.chapters.
AddTextAsyncReturn ==
    /\ GatherReturnReady
    /\ op = "add_text_async"
    /\ story' = AppendChapters(story, Sorted(Gather(tasks, done)))
    /\ phase' = "idle"
    /\ outcome' = "returned"
    /\ UNCHANGED <<op, pre, tasks, done, calls, issued, ret, nops, app_pc,
                   layout, last, seed, index, first>>

\* -------------------------------------------------------- the image batch

\* The model's free-text description for the character at index i (no
\* parser reads it), and the image service's response to that prompt.
Description(i) == [desc |-> i]
ImageResponse(i) == [data |-> <<[url |-> i]>>]

\* Another answer of the model for the same character: a very long one.
LongDescription(i) == [desc |-> i, long |-> TRUE]

\* res = llm(s): the answers the model may give for the character at index
\* i; any string is taken as it is.  (A single generate_image_async call
\* is run with both; in the batch every character gets Description(i).)
Descriptions(i) == {Description(i), LongDescription(i)}

\* style_descriptors, and ", ".join(style_descriptors).
StyleDescriptors ==
    <<"whimsical", "colorful", "watercolor style",
      "children's book illustration", "cute and friendly",
      "detailed background", "gentle color palette">>

RECURSIVE Join(_, _)
Join(sep, s) ==
    IF Len(s) <= 1 THEN s ELSE <<s[1], sep>> \o Join(sep, Tail(s))

\* An image prompt that cuts a long description short.
ImagePromptTruncated(d) ==
    [lead |-> "A children's book illustration in ",
     style_text |-> Join(", ", StyleDescriptors),
     tail |-> " style. ",
     res |-> Description(d.desc)]

\* f"A children's book illustration in {style_text} style. {res}": the
\* parts of the string in their order.
ImagePrompt(d) ==
    [lead |-> "A children's book illustration in ",
     style_text |-> Join(", ", StyleDescriptors),
     tail |-> " style. ",
     res |-> d]

\* The keyword arguments of openai.Image.acreate besides the prompt.
ImageParams ==
    [n |-> 1, size |-> "1024x1024", model |-> "dall-e-3", quality |-> "hd"]

\* The image request of a task: the call, with the prompt made of the
\* description d and the fixed parameters.
ImageCall(o, n, name, pos, s, d) ==
    [kind |-> "image", stage |-> o, inv |-> n, name |-> name, pos |-> pos,
     seen |-> Json(s), prompt |-> ImagePrompt(d), params |-> ImageParams]

\* results = await asyncio.gather(*tasks); return results
ImagesReturnValue(ts, dn) == [value |-> Gather(ts, dn)]

\* generate_all_character_images up to asyncio.gather: one coroutine per
\* character, none of them started.  story.characters.characters raises
\* AttributeError when characters is None.
StartImages ==
    /\ Begin(ImageBatch)
    /\ UNCHANGED <<story, calls, issued, index>>
    /\ IF story.characters = None
       THEN phase' = "idle" /\ outcome' = "raised" /\ tasks' = <<>>
       ELSE IF Len(story.characters.characters) = 0
       THEN /\ phase' = "idle"
            /\ outcome' = "returned"
            /\ tasks' = <<>>
       ELSE /\ phase' = "gather"
            /\ outcome' = "none"
            /\ tasks' = [i \in 1..Len(story.characters.characters) |->
                           NewTask]
    /\ ret' = IF story.characters # None
                 /\ Len(story.characters.characters) = 0
              THEN ImagesReturnValue(<<>>, <<>>)
              ELSE NoResult

\* A batch whose description calls run in worker threads: the call for any
\* character may be made while those of earlier characters are still to be
\* made.
ImageDescribeAnyOrder(i) ==
    /\ op = ImageBatch
    /\ phase = "gather"
    /\ tasks[i].st = "new"
    /\ \E raises \in BOOLEAN :
          IF raises
          THEN /\ tasks' = [tasks EXCEPT ![i] = Raised("ModelCallError")]
               /\ done' = Append(done, i)
               /\ Issue({Call("llm", op, nops, IntVal(i - 1), i, story)})
          ELSE /\ tasks' = [tasks EXCEPT ![i] =
                              [st |-> "img", res |-> Description(i - 1)]]
               /\ done' = done
               /\ Issue({Call("llm", op, nops, IntVal(i - 1), i, story),
                          ImageCall(op, nops, IntVal(i - 1), i, story,
                                    Description(i - 1))})
    /\ UNCHANGED <<story, op, phase, outcome, pre, ret, nops, app_pc, layout,
                   last, seed, index, first>>

\* generate_image_async for the character in position i (index i - 1), up
\* to its await: the event loop starts the tasks in creation order, and
\* each runs the blocking call llm(s) and then issues the image request
\* before the loop runs anything else.  llm(s) raising ends the task.
ImageDescribe(i) ==
    /\ op = ImageBatch
    /\ phase = "gather"
    /\ tasks[i].st = "new"
    /\ \A j \in 1..(i - 1) : tasks[j].st # "new"
    /\ \E raises \in BOOLEAN :
          IF raises
          THEN /\ tasks' = [tasks EXCEPT ![i] = Raised("ModelCallError")]
               /\ done' = Append(done, i)
               /\ Issue({Call("llm", op, nops, IntVal(i - 1), i, story)})
          ELSE /\ tasks' = [tasks EXCEPT ![i] =
                              [st |-> "img", res |-> Description(i - 1)]]
               /\ done' = done
               /\ Issue({Call("llm", op, nops, IntVal(i - 1), i, story),
                          ImageCall(op, nops, IntVal(i - 1), i, story,
                                    Description(i - 1))})
    /\ UNCHANGED <<story, op, phase, outcome, pre, ret, nops, app_pc, layout,
                   last, seed, index, first>>

\* A task that writes the generated description into the character record
\* of the Story.
ImageCompleteStoresDescription(i) ==
    /\ op = ImageBatch
    /\ tasks[i].st = "img"
    /\ \A j \in DOMAIN tasks : tasks[j].st # "new"
    /\ phase = "gather" \/ app_pc = NoApp
    /\ \E raises \in BOOLEAN :
          /\ tasks' = [tasks EXCEPT ![i] =
                         IF raises
                         THEN Raised("ImageCallError")
                         ELSE Returned(<<i - 1, tasks[i].res,
                                         ImageResponse(i - 1)>>)]
          /\ story' = IF raises THEN story
                      ELSE [story EXCEPT
                              !.characters.characters[i].name = i + MaxChars]
    /\ done' = Append(done, i)
    /\ UNCHANGED <<op, phase, outcome, pre, calls, issued, ret, nops, app_pc,
                   layout, last, seed, index, first>>

\* The image request of task i ends: the task returns (i, res, response)
\* or raises.  The event loop handles it after it has started every task,
\* and only while the loop runs: run_app abandons its loop when
\* run_until_complete raises.
ImageComplete(i) ==
    /\ op = ImageBatch
    /\ tasks[i].st = "img"
    /\ \A j \in DOMAIN tasks : tasks[j].st # "new"
    /\ phase = "gather" \/ app_pc = NoApp
    /\ \E raises \in BOOLEAN :
          tasks' = [tasks EXCEPT ![i] =
                      IF raises
                      THEN Raised("ImageCallError")
                      ELSE Returned(<<i - 1, tasks[i].res,
                                      ImageResponse(i - 1)>>)]
    /\ done' = Append(done, i)
    /\ UNCHANGED <<story, op, phase, outcome, pre, calls, issued, ret, nops,
                   app_pc, layout, last, seed, index, first>>

\* Every task returned: results = await asyncio.gather(*tasks); return.
ImagesReturn ==
    /\ GatherReturnReady
    /\ op = ImageBatch
    /\ ret' = ImagesReturnValue(tasks, done)
    /\ phase' = "idle"
    /\ outcome' = "returned"
    /\ UNCHANGED <<story, op, pre, tasks, done, calls, issued, nops, app_pc,
                   layout, last, seed, index, first>>

\* ---------------------------------------------------------- generate_image

GenerateImage == "generate_image"

\* The indices a caller may give: those of the characters, -1 (Python
\* counts it from the end of the list) and one past every list.
Indices == -1..MaxChars

\* story.characters.characters[i] raises AttributeError when characters is
\* None and IndexError when i is outside -len..len-1.
ValidIndex(s, i) ==
    /\ s.characters # None
    /\ -Len(s.characters.characters) <= i
    /\ i < Len(s.characters.characters)

\* What asyncio gives the calling thread: a loop that can run ("usable"),
\* the closed loop an earlier run left set ("closed"), a loop that is
\* running ("running"), or no loop ("none": get_event_loop raises
\* RuntimeError in a thread that has none).
LoopStates == {"usable", "closed", "running", "none"}

\* The exceptions an external call may raise, RuntimeError among them.
LlmErrors == {"RuntimeError", "ModelCallError"}
ImageErrors == {"RuntimeError", "ImageCallError"}

\* generate_image up to the first run of its coroutine.  tasks holds the
\* two runs of generate_image_async the function can make: the one in the
\* try block and the one in the except block.  get_event_loop stands before
\* the try, so its RuntimeError propagates; run_until_complete raises
\* RuntimeError on a closed or a running loop before the coroutine starts,
\* and in the except block again when a loop is running.
StartImage(i) ==
    /\ Begin(GenerateImage)
    /\ index' = i
    /\ ret' = NoResult
    /\ UNCHANGED <<story, calls, issued>>
    /\ \E ctx \in LoopStates :
          CASE ctx = "none" ->
                 /\ tasks' = <<NewTask, NewTask>>
                 /\ phase' = "idle" /\ outcome' = "raised"
            [] ctx = "running" ->
                 /\ tasks' = <<Raised("RuntimeError"), Raised("RuntimeError")>>
                 /\ phase' = "idle" /\ outcome' = "raised"
            [] ctx = "closed" ->
                 /\ tasks' = <<Raised("RuntimeError"), NewTask>>
                 /\ phase' = "image" /\ outcome' = "none"
            [] ctx = "usable" ->
                 /\ tasks' = <<NewTask, NewTask>>
                 /\ phase' = "image" /\ outcome' = "none"

\* except RuntimeError: the exception e of run a is handled, by running the
\* coroutine again, when it is a RuntimeError raised in the try block.
HandlesRuntimeError(a, e) == a = 1 /\ e = "RuntimeError"

\* Run a of generate_image_async up to its await: the prompt is formatted
\* (the character is read), llm(s) is called and the image request issued.
ImageAttempt(a) ==
    /\ op = GenerateImage
    /\ phase = "image"
    /\ tasks[a].st = "new"
    /\ a = 2 => tasks[1].st = "err"
    /\ IF ~ValidIndex(story, index)
       THEN /\ tasks' = [tasks EXCEPT ![a] =
                           Raised(IF story.characters = None
                                  THEN "AttributeError" ELSE "IndexError")]
            /\ phase' = "idle"
            /\ outcome' = "raised"
            /\ UNCHANGED <<calls, issued>>
       ELSE \E e \in {"ok"} \cup LlmErrors :
              IF e = "ok"
              THEN \E d \in Descriptions(index) :
                     /\ tasks' = [tasks EXCEPT ![a] =
                                    [st |-> "img", res |-> d]]
                     /\ Issue({Call("llm", op, nops, IntVal(index), 1,
                                     story),
                                ImageCall(op, nops, IntVal(index), 1, story,
                                          d)})
                     /\ UNCHANGED <<phase, outcome>>
              ELSE /\ tasks' = [tasks EXCEPT ![a] = Raised(e)]
                   /\ Issue({Call("llm", op, nops, IntVal(index), 1, story)})
                   /\ IF HandlesRuntimeError(a, e)
                      THEN UNCHANGED <<phase, outcome>>
                      ELSE phase' = "idle" /\ outcome' = "raised"
    /\ UNCHANGED <<story, op, pre, done, ret, nops, app_pc, layout, last,
                   seed, index, first>>

\* The image request of run a ends: generate_image returns
\* (prompt, response), or the exception is handled or propagates.
ImageAttemptComplete(a) ==
    /\ op = GenerateImage
    /\ phase = "image"
    /\ tasks[a].st = "img"
    /\ \E e \in {"ok"} \cup ImageErrors :
          IF e = "ok"
          THEN /\ tasks' = [tasks EXCEPT ![a] =
                              Returned(<<index, tasks[a].res,
                                         ImageResponse(index)>>)]
               /\ ret' = [value |-> <<tasks[a].res, ImageResponse(index)>>]
               /\ phase' = "idle"
               /\ outcome' = "returned"
          ELSE /\ tasks' = [tasks EXCEPT ![a] = Raised(e)]
               /\ ret' = ret
               /\ IF HandlesRuntimeError(a, e)
                  THEN UNCHANGED <<phase, outcome>>
                  ELSE phase' = "idle" /\ outcome' = "raised"
    /\ UNCHANGED <<story, op, pre, done, calls, issued, nops, app_pc, layout,
                   last, seed, index, first>>

\* ------------------------------------------------------------ the callers

\* Layout(): the containers made by st.container(), in the order of the
\* constructor, and the section headers written into them; no character
\* column yet, nothing rendered.  An image column is named by the index of
\* the character container it was made in.
NewLayout ==
    [containers |-> <<"header", "status", "characters", "outline", "text",
                      "appendix">>,
     headers |-> <<[to |-> "characters", text |-> "## Starring"],
                   [to |-> "outline", text |-> "## Contents"],
                   [to |-> "text", text |-> "## Story"],
                   [to |-> "appendix", text |-> "## Logs"]>>,
     character_img_cols |-> <<>>, log |-> <<>>, imgs |-> <<>>]

Start(o) ==
    \/ StartStage(o)
    \/ o = "add_text" /\ StartAddText
    \/ o = "add_text_async" /\ StartAddTextAsync
    \/ o = ImageBatch /\ StartImages

\* The seed prompts a caller may give; the empty string is one of them.
Prompts == {"", "A brave turtle"}

\* Story(prompt=p): a caller constructs a Story and holds it from then on.
Create(p) ==
    /\ app_pc = NoApp
    /\ op = "none"
    /\ op' = "Story"
    /\ seed' = p
    /\ story' = NewStory(p)
    /\ pre' = story'
    /\ outcome' = "returned"
    /\ UNCHANGED <<phase, tasks, done, calls, issued, ret, nops, app_pc,
                   layout, last, index, first>>

\* A caller invokes one operation on a Story it holds.
Invoke(o) ==
    /\ app_pc = NoApp
    /\ op \in {"none", "Story"}
    /\ Start(o)
    /\ UNCHANGED <<app_pc, layout>>

\* A text an earlier generation left in the Story.
OldText ==
    [chapters |-> <<[chapter |-> IntVal(1), text |-> ChapterWords(0, 1)]>>]

\* The Stories a caller may hold when it invokes an operation: Story(...)
\* with any of its optional fields None or set.  The character list and
\* the outline take every value, one of them at a time.
StoriesWith(cset, oset) ==
    {[prompt |-> "A brave turtle", metadata |-> m, characters |-> c,
      outline |-> o, text |-> t] :
        m \in {None, MetaDataModel("T0")},
        c \in {None} \cup cset,
        o \in {None} \cup oset,
        t \in {None, OldText}}

InitStories ==
    StoriesWith({CharactersModel(n) : n \in 0..MaxChars},
                {BookOutlineModel(<<1>>)})
      \cup StoriesWith({CharactersModel(1)},
                       {BookOutlineModel(cs) : cs \in ChapterSeqs})

InitCommon ==
    /\ op = "none"
    /\ phase = "idle"
    /\ outcome = "none"
    /\ tasks = <<>>
    /\ done = <<>>
    /\ calls = {}
    /\ issued = NoCalls
    /\ last = NoResponse
    /\ seed = story.prompt
    /\ index = 0
    /\ first = NoFirst
    /\ ret = NoResult
    /\ nops = 0
    /\ layout = NewLayout

Init ==
    /\ story \in InitStories
    /\ pre = story
    /\ app_pc = NoApp
    /\ InitCommon

Steps ==
    \/ StageReturn
    \/ \E i \in DOMAIN tasks : ChapterIssue(i)
    \/ \E i \in DOMAIN tasks : ChapterComplete(i)
    \/ GatherRaise
    \/ AddTextAsyncReturn
    \/ \E i \in DOMAIN tasks : ImageDescribe(i)
    \/ \E i \in DOMAIN tasks : ImageComplete(i)
    \/ ImagesReturn

\* A caller invokes generate_image for index i on a Story it holds.
InvokeImage(i) ==
    /\ app_pc = NoApp
    /\ op \in {"none", "Story"}
    /\ StartImage(i)
    /\ UNCHANGED <<app_pc, layout>>

Next ==
    \/ \E p \in Prompts : Create(p)
    \/ \E o \in Operations : Invoke(o)
    \/ \E i \in Indices : InvokeImage(i)
    \/ AddTextStep
    \/ \E a \in 1..2 : ImageAttempt(a)
    \/ \E a \in 1..2 : ImageAttemptComplete(a)
    \/ Steps

Spec == Init /\ [][Next]_vars

\* The steps the program takes by itself once they are possible: the worker
\* threads and the event loop start the tasks that are ready, and gather
\* ends when its tasks have.  The end of an external call is not among
\* them: nothing in the code bounds the time a call may take.
ProgramSteps ==
    \/ \E i \in DOMAIN tasks : ChapterIssue(i)
    \/ \E i \in DOMAIN tasks : ImageDescribe(i)
    \/ \E a \in 1..2 : ImageAttempt(a)
    \/ GatherRaise
    \/ AddTextAsyncReturn
    \/ ImagesReturn

SpecLive == Spec /\ WF_vars(ProgramSteps)

\* ------------------------------------------- two executions of the text stage

\* The ChapterText each outline entry's call returned in the execution that
\* has ended (the second component of the pair in add_text_async).
Records ==
    [i \in DOMAIN tasks |->
        IF op = "add_text_async" THEN tasks[i].res[2] ELSE tasks[i].res]

\* The caller kept an equal copy of the Story it gave to the text stage;
\* when the stage has returned it keeps what the stage ended with and takes
\* the copy, on which no operation has been invoked.
TakeCopy ==
    /\ app_pc = NoApp
    /\ first = NoFirst
    /\ op \in TextStages
    /\ phase = "idle"
    /\ outcome = "returned"
    /\ first' = [op |-> op, chapters |-> story.text.chapters,
                 records |-> Records, done |-> done]
    /\ story' = pre
    /\ op' = "none"
    /\ outcome' = "none"
    /\ tasks' = <<>>
    /\ done' = <<>>
    /\ UNCHANGED <<phase, pre, calls, issued, ret, nops, app_pc, layout,
                   last, seed, index>>

\* The Stories of the two executions: an outline of MaxOutline entries of
\* any chapter numbers, text unset.
InitTwice ==
    /\ story \in {s \in InitStories :
                     /\ s.outline # None
                     /\ Len(s.outline.outlines) = MaxOutline
                     /\ s.metadata = None
                     /\ s.text = None}
    /\ pre = story
    /\ app_pc = NoApp
    /\ InitCommon

NextTwice ==
    \/ \E o \in TextStages : Invoke(o)
    \/ TakeCopy
    \/ AddTextStep
    \/ \E i \in DOMAIN tasks : ChapterIssue(i)
    \/ \E i \in DOMAIN tasks : ChapterComplete(i)
    \/ GatherRaise
    \/ AddTextAsyncReturn

SpecTwice == InitTwice /\ [][NextTwice]_vars

\* ----------------------------------------------------------------- run_app

\* run_app's stages in the order of its source, and the operation each
\* runs in a fresh event loop.
AppStages == <<"metadata", "characters", "images", "outline", "text">>

AppOp(x) ==
    CASE x = "metadata" -> "add_metadata_async"
      [] x = "characters" -> "add_characters_async"
      [] x = "images" -> ImageBatch
      [] x = "outline" -> "add_outline_async"
      [] x = "text" -> "add_text_async"

AppCalling(x) == [at |-> "call", stage |-> x]
AppWaiting(x) == [at |-> "wait", stage |-> x]
AppCrashed == [at |-> "crashed", stage |-> "none"]
AppComplete == [at |-> "complete", stage |-> "none"]

\* run_app with the outline stage moved before the characters stage.
AppAfterOutlineFirst(x) ==
    CASE x = "metadata" -> AppCalling("outline")
      [] x = "outline" -> AppCalling("characters")
      [] x = "characters" -> AppCalling("images")
      [] x = "images" -> AppCalling("text")
      [] x = "text" -> AppComplete

\* run_app with the characters stage and its images left out.
AppAfterSkipsCharacters(x) ==
    CASE x = "metadata" -> AppCalling("outline")
      [] x = "outline" -> AppCalling("text")
      [] OTHER -> AppComplete

\* What follows the rendering of stage x.
AppAfter(x) ==
    CASE x = "metadata" -> AppCalling("characters")
      [] x = "characters" -> AppCalling("images")
      [] x = "images" -> AppCalling("outline")
      [] x = "outline" -> AppCalling("text")
      [] x = "text" -> AppComplete

\* A Layout whose add_characters makes one image column for all the
\* characters together.
RenderSharedColumn(x, l, s, r) ==
    CASE x = "metadata" -> [l EXCEPT !.log = Append(@, "add_metadata")]
      [] x = "characters" ->
           [l EXCEPT !.character_img_cols =
                         IF Len(s.characters.characters) = 0
                         THEN @ ELSE Append(@, 0),
                     !.log = Append(@, "add_characters")]
      [] x = "images" ->
           [l EXCEPT !.imgs = @ \o [i \in 1..Len(r.value) |->
                                      <<r.value[i][1], r.value[i][3]>>],
                     !.log = Append(@, "add_character_img")]
      [] x = "outline" -> [l EXCEPT !.log = Append(@, "add_outline")]
      [] x = "text" -> [l EXCEPT !.log = @ \o <<"add_text", "success">>]

\* The Layout method run_app calls after stage x: add_metadata,
\* add_characters (one image column per character), add_character_img for
\* every returned image, add_outline, add_text and the completion message.
Render(x, l, s, r) ==
    CASE x = "metadata" -> [l EXCEPT !.log = Append(@, "add_metadata")]
      [] x = "characters" ->
           [l EXCEPT !.character_img_cols =
                         @ \o [i \in 1..Len(s.characters.characters) |->
                                 i - 1],
                     !.log = Append(@, "add_characters")]
      [] x = "images" ->
           [l EXCEPT !.imgs = @ \o [i \in 1..Len(r.value) |->
                                      <<r.value[i][1], r.value[i][3]>>],
                     !.log = Append(@, "add_character_img")]
      [] x = "outline" -> [l EXCEPT !.log = Append(@, "add_outline")]
      [] x = "text" -> [l EXCEPT !.log = @ \o <<"add_text", "success">>]

\* loop.run_until_complete(<operation of stage x>), up to the operation's
\* first wait.
AppInvoke(x) ==
    /\ app_pc = AppCalling(x)
    /\ Start(AppOp(x))
    /\ app_pc' = AppWaiting(x)
    /\ UNCHANGED layout

\* run_app handing the title to the Layout as soon as the metadata stage
\* was started, without waiting for run_until_complete to return.
AppRenderEarly(x) ==
    /\ app_pc = AppWaiting(x)
    /\ IF x = "metadata"
       THEN outcome # "raised"
       ELSE phase = "idle" /\ outcome = "returned"
    /\ layout' = Render(x, layout, story, ret)
    /\ app_pc' = AppAfter(x)
    /\ UNCHANGED <<story, op, phase, outcome, pre, tasks, done, calls, issued,
                   ret, nops, last, seed, index, first>>

\* A Layout whose add_text takes the chapters out of story.text.chapters
\* as it writes them.
AppRenderConsumesChapters(x) ==
    /\ app_pc = AppWaiting(x)
    /\ phase = "idle"
    /\ outcome = "returned"
    /\ layout' = Render(x, layout, story, ret)
    /\ app_pc' = AppAfter(x)
    /\ story' = IF x = "text" THEN ResetText(story) ELSE story
    /\ UNCHANGED <<op, phase, outcome, pre, tasks, done, calls, issued, ret,
                   nops, last, seed, index, first>>

\* The operation returned: run_app hands the result to the Layout and goes
\* on to the next stage.
AppRender(x) ==
    /\ app_pc = AppWaiting(x)
    /\ phase = "idle"
    /\ outcome = "returned"
    /\ layout' = Render(x, layout, story, ret)
    /\ app_pc' = AppAfter(x)
    /\ UNCHANGED <<story, op, phase, outcome, pre, tasks, done, calls, issued,
                   ret, nops, last, seed, index, first>>

\* The operation raised: run_app catches nothing, the run ends there.
AppCrash ==
    /\ app_pc.at = "wait"
    /\ phase = "idle"
    /\ outcome = "raised"
    /\ app_pc' = AppCrashed
    /\ UNCHANGED <<story, op, phase, outcome, pre, tasks, done, calls, issued,
                   ret, nops, layout, last, seed, index, first>>

\* run_app once a key and a prompt were entered: Layout(), Story(prompt).
InitApp ==
    /\ story = NewStory("A brave turtle")
    /\ pre = story
    /\ app_pc = AppCalling("metadata")
    /\ InitCommon

NextApp ==
    \/ \E x \in {AppStages[j] : j \in DOMAIN AppStages} : AppInvoke(x)
    \/ \E x \in {AppStages[j] : j \in DOMAIN AppStages} : AppRender(x)
    \/ AppCrash
    \/ Steps

SpecApp == InitApp /\ [][NextApp]_vars

\* ------------------------------------------------ every call comes to an end

\* The steps in which an external call returns or raises.
CallEnds ==
    \/ StageReturn
    \/ AddTextStep
    \/ \E i \in DOMAIN tasks : ChapterComplete(i)
    \/ \E i \in DOMAIN tasks : ImageComplete(i)
    \/ \E a \in 1..2 : ImageAttemptComplete(a)

\* run_app's own steps: it calls the next stage, renders, or ends with the
\* exception of the stage.
AppSteps ==
    \/ \E x \in {AppStages[j] : j \in DOMAIN AppStages} : AppInvoke(x)
    \/ \E x \in {AppStages[j] : j \in DOMAIN AppStages} : AppRender(x)
    \/ AppCrash

\* The program with either caller, where the program takes the steps it can
\* take and every external call that was issued comes to an end.  The
\* Stories of the first caller have metadata and text unset.
InitFair ==
    \/ Init /\ story.metadata = None /\ story.text = None
    \/ InitApp

NextFair == Next \/ AppSteps

SpecFair ==
    /\ InitFair
    /\ [][NextFair]_vars
    /\ WF_vars(ProgramSteps)
    /\ WF_vars(CallEnds)
    /\ WF_vars(AppSteps)

\* ------------------------------------------------------------------ claims

\* The operation invoked last has ended, by returning or by raising.
Ended(o) == op = o /\ phase = "idle"
ReturnedFrom(o) == Ended(o) /\ outcome = "returned"
RaisedFrom(o) == Ended(o) /\ outcome = "raised"

Orderings(k) ==
    {f \in [1..k -> 1..k] : \A a, b \in 1..k : a # b => f[a] # f[b]}

\* C1: after add_text_async returns, story.text.chapters holds exactly one
\* entry per outline entry (each the record its task returned), and the
\* entries stand in ascending order of the chapter number of the outline
\* entry they were generated for, whatever the order of completion.
C1_ChaptersSortedOnePerEntry ==
    ReturnedFrom("add_text_async") =>
        LET k == Len(story.outline.outlines)
            ch == story.text.chapters
        IN  /\ Len(ch) = k
            /\ \E f \in Orderings(k) :
                 /\ \A j \in 1..k :
                      /\ tasks[f[j]].res[1] = Entry(story, f[j]).chapter
                      /\ ch[j] = tasks[f[j]].res[2]
                 /\ \A j \in 1..(k - 1) :
                      Entry(story, f[j]).chapter
                          <= Entry(story, f[j + 1]).chapter

\* C1 witness: add_text_async returned for an outline of two entries in
\* ascending chapter order whose second call completed first.
C1_Witness ==
    /\ ReturnedFrom("add_text_async")
    /\ Len(story.outline.outlines) = 2
    /\ Entry(story, 1).chapter < Entry(story, 2).chapter
    /\ done = <<2, 1>>
    /\ Len(story.text.chapters) = 2

\* C2: if one chapter call of add_text_async raises, add_text_async raises
\* and a text that was unset is still None afterwards.
C2_TextUnsetAfterFailedFanOut ==
    ( /\ Ended("add_text_async")
      /\ pre.text = None
      /\ \E i \in DOMAIN tasks : tasks[i].st = "err" )
        => (outcome = "raised" /\ story.text = None)

\* C3: the text stage on a Story whose outline is None raises, issues no
\* model call and leaves every field of the Story as it was.
C3_NoOutlineLeavesStoryUnchanged ==
    ( /\ op \in TextStages
      /\ phase = "idle"
      /\ pre.outline = None )
        => (outcome = "raised" /\ calls = {} /\ story = pre)

\* C4: a stage operation, wherever it stands and however it ended, has left
\* the prompt and the fields of the three other stages as they were when it
\* was invoked.
C4_StageWritesOnlyItsField ==
    op \in SingleCallStages \cup TextStages =>
        /\ story.prompt = pre.prompt
        /\ \A j \in DOMAIN StageFields :
             StageFields[j] # FieldOf(op)
                 => story[StageFields[j]] = pre[StageFields[j]]

\* C4 witness: add_metadata returned on a fresh Story: metadata is set and
\* characters is still None.
C4_Witness ==
    /\ ReturnedFrom("add_metadata")
    /\ pre = NewStory("A brave turtle")
    /\ story.metadata # None
    /\ story.characters = None

\* C5: in a run of run_app every call of the characters stage was issued
\* with metadata set, every call of the outline stage with characters set,
\* and every chapter call with the outline set.
C5_CallsFollowEarlierStage ==
    \A c \in calls :
        /\ c.stage = "add_characters_async" => c.seen.metadata # None
        /\ c.stage = "add_outline_async" => c.seen.characters # None
        /\ c.stage = "add_text_async" => c.seen.outline # None

\* C5 witness: run_app has issued a chapter call.
C5_Witness ==
    /\ app_pc = AppWaiting("text")
    /\ \E c \in calls : c.stage = "add_text_async" /\ c.kind = "llm"

\* The stage fields that are set form a prefix of (metadata, characters,
\* outline, text).
SetFieldsArePrefix(s) ==
    \A j \in 2..Len(StageFields) :
        s[StageFields[j]] # None => s[StageFields[j - 1]] # None

\* C6: in every state of a run of run_app the set stage fields form a
\* prefix of (metadata, characters, outline, text), and no step makes a
\* set field None again.
C6_PrefixAndMonotone ==
    /\ []SetFieldsArePrefix(story)
    /\ [][\A j \in DOMAIN StageFields :
            story[StageFields[j]] # None => story'[StageFields[j]] # None]_vars

\* C6 witness: run_app has reached HasText, with chapters.
C6_Witness ==
    /\ app_pc = AppComplete
    /\ \A j \in DOMAIN StageFields : story[StageFields[j]] # None
    /\ Len(story.text.chapters) = 2

\* C7: when the model call of a single-call stage raises or its response
\* fails to parse, the stage raises and the Story (the stage's own field
\* and the fields of the earlier stages) is as it was before the call.
C7_FailedStageLeavesStory ==
    ( /\ op \in SingleCallStages
      /\ phase = "idle"
      /\ tasks[1].st = "err" )
        => (outcome = "raised" /\ story = pre)

\* C7 witness: add_outline_async failed on a response that did not parse,
\* on a Story holding metadata and characters.
C7_Witness ==
    /\ RaisedFrom("add_outline_async")
    /\ tasks[1] = Raised("ParseError")
    /\ story.metadata # None
    /\ story.characters # None
    /\ story.outline = None

\* C8: when the description call or the image call of one character
\* raises, generate_all_character_images raises and hands no result to its
\* caller.
C8_FailedBatchReturnsNothing ==
    ( /\ op = ImageBatch
      /\ \E i \in DOMAIN tasks : tasks[i].st = "err" )
        => /\ ret = NoResult
           /\ phase = "idle" => outcome = "raised"

\* C8 witness: the batch raised after the image of index 0 had succeeded
\* and the image call of index 1 had failed.
C8_Witness ==
    /\ RaisedFrom(ImageBatch)
    /\ Len(tasks) = 2
    /\ tasks[1].st = "ok"
    /\ tasks[2] = Raised("ImageCallError")

\* C9: when every call succeeds, generate_all_character_images returns one
\* result per character, the result in position i holding index i with
\* the description and the image response made for character i.
C9_ResultsInCharacterOrder ==
    ReturnedFrom(ImageBatch) =>
        /\ ret # NoResult
        /\ Len(ret.value) = Len(story.characters.characters)
        /\ \A p \in 1..Len(ret.value) :
             ret.value[p]
                 = <<p - 1, Description(p - 1), ImageResponse(p - 1)>>

\* C9 witness: the batch returned two results after the image of index 1
\* had completed before the image of index 0.
C9_Witness ==
    /\ ReturnedFrom(ImageBatch)
    /\ done = <<2, 1>>
    /\ Len(ret.value) = 2

\* C10: every chapter call of add_text_async sends the same document: the
\* outline is present and the text holds no chapter.
C10_ChapterCallsSeeSameDocument ==
    \A c \in calls :
        c.stage = "add_text_async" =>
            /\ c.seen.outline # None
            /\ c.seen.text = FullTextModel
            /\ \A d \in calls : d.stage = c.stage => d.seen = c.seen

\* C10 witness: the call of the second task is issued after the first task
\* has returned its chapter.
C10_Witness ==
    /\ op = "add_text_async"
    /\ Len(tasks) = 2
    /\ tasks[1].st = "ok"
    /\ tasks[2].st = "called"
    /\ \E c \in calls : c.stage = "add_text_async" /\ c.pos = 2

\* C11: after add_text_async returns, story.text.chapters is as long as
\* story.outline.outlines and the chapter in position i is the one the
\* task of the outline entry in position i returned, so that pairing
\* text.chapters[i] with outline.outlines[i].title shows each chapter under
\* its own title.
C11_ChapterAtPositionOfItsEntry ==
    ReturnedFrom("add_text_async") =>
        /\ Len(story.text.chapters) = Len(story.outline.outlines)
        /\ \A i \in 1..Len(story.text.chapters) :
             /\ tasks[i].res[1] = Entry(story, i).chapter
             /\ story.text.chapters[i] = tasks[i].res[2]

\* C12: while add_text_async or generate_all_character_images runs, and
\* while tasks it left behind still run, no step of a task changes the
\* Story; the one step that does is add_text_async's own, taken when every
\* task of the batch has returned, and it changes text.chapters only.
C12_OnlyOrchestratorWritesStory ==
    [][(op \in {"add_text_async", ImageBatch} /\ op' = op /\ story' # story)
          => /\ op = "add_text_async"
             /\ phase = "gather"
             /\ phase' = "idle"
             /\ tasks' = tasks
             /\ \A i \in DOMAIN tasks : tasks[i].st = "ok"
             /\ story' = [story EXCEPT !.text.chapters = story'.text.chapters]
       ]_vars

\* C12 witness: in add_text_async the task of the second entry has
\* returned while the call of the first is still out, and text.chapters
\* is still empty.
C12_Witness ==
    /\ op = "add_text_async"
    /\ phase = "gather"
    /\ done = <<2>>
    /\ tasks[2].st = "ok"
    /\ tasks[1].st = "called"
    /\ story.text.chapters = <<>>

\* C13: no external call is issued twice: every call was issued once, an
\* invocation issues one call of a kind per unit of work (one per outline
\* entry, one description and one image request per character), and a
\* single-call stage issues exactly one call.
C13_NoCallIssuedTwice ==
    /\ \A c \in calls : c.stage \in Operations => issued[c] = 1
    /\ \A c, d \in calls :
          (c.stage \in Operations /\ c.inv = d.inv /\ c.kind = d.kind
              /\ c.pos = d.pos) => c = d
    /\ \A c \in calls :
          /\ c.stage \in SingleCallStages => c.kind = "llm" /\ c.pos = 0
          /\ c.stage \in TextStages =>
                c.kind = "llm" /\ c.pos \in 1..Len(c.seen.outline.outlines)
          /\ c.stage = ImageBatch =>
                c.pos \in 1..Len(c.seen.characters.characters)
    /\ op \in SingleCallStages =>
          Cardinality({c \in calls : c.inv = nops}) = 1

\* C13 witness: the image batch for two characters raised after the image
\* request of index 0 had failed; the four calls were each issued once.
C13_Witness ==
    /\ RaisedFrom(ImageBatch)
    /\ Len(tasks) = 2
    /\ tasks[1] = Raised("ImageCallError")
    /\ Cardinality(calls) = 4
    /\ \A c \in calls : issued[c] = 1

\* C14: the characters stage invoked on a Story whose metadata is None, and
\* the outline stage invoked on a Story whose characters is None, raise and
\* leave every field as it was.
C14_MissingDependencyRaises ==
    ( /\ phase = "idle"
      /\ \/ op \in {"add_characters", "add_characters_async"}
               /\ pre.metadata = None
         \/ op \in {"add_outline", "add_outline_async"}
               /\ pre.characters = None )
        => (outcome = "raised" /\ story = pre)

\* The record a finished unit of work returned.
ReturnedRecord(t) == IF op = "add_text_async" THEN t.res[2] ELSE t.res

\* C15: whenever _run_llm has handled a response, it either raised or
\* returned a record whose every schema field is the value the response
\* holds for it; a response lacking a field of the schema made it raise.
C15_EveryFieldDecodedOrRaise ==
    last.schema # "none" =>
        LET t == tasks[last.pos]
        IN  /\ t.st \in {"ok", "err"}
            /\ t.st = "ok" =>
                  /\ last.out.kind = "text"
                  /\ last.out.body # Malformed
                  /\ Fields(last.schema) \subseteq DOMAIN last.out.body
                  /\ \A f \in Fields(last.schema) :
                        ReturnedRecord(t)[f] = last.out.body[f]

C17_NewStoryIsEmpty ==
    op = "Story" =>
        story = [prompt |-> seed, metadata |-> None, characters |-> None,
                 outline |-> None, text |-> None]

\* C17 witness: a Story constructed from the empty prompt.
C17_Witness ==
    /\ op = "Story"
    /\ seed = ""
    /\ story.prompt = ""
    /\ story.text = None

\* C18: a run of run_app that has ended without a failure of the metadata,
\* characters, outline or text stage has set outline and text, whether or
\* not the image batch succeeded.
C18_ImagesDoNotGateText ==
    ( /\ app_pc \in {AppCrashed, AppComplete}
      /\ ~(op \in AsyncStages \cup TextStages /\ outcome = "raised") )
        => (story.outline # None /\ story.text # None)

\* C19: from the invocation of generate_all_character_images or of
\* generate_image on, through every step of their generate_image_async
\* coroutines and after they returned or raised, the Story is as it was
\* when the function was invoked.
C19_ImageFunctionsLeaveStory ==
    op \in {ImageBatch, GenerateImage} => story = pre

\* C19 witness: generate_image returned a prompt and a response from its
\* second run, on a Story that holds an outline.
C19_Witness ==
    /\ ReturnedFrom(GenerateImage)
    /\ tasks[1] = Raised("RuntimeError")
    /\ tasks[2].st = "ok"
    /\ ret = [value |-> <<Description(index), ImageResponse(index)>>]
    /\ story = pre
    /\ story.outline # None

\* C20: a step in which the Layout is given something to show leaves
\* every field of the Story as it was.
C20_RendererLeavesStory ==
    [][layout' # layout => story' = story]_vars

\* C20 witness: run_app has rendered every stage, the chapters of a text of
\* two chapters among them, and the Story still holds both.
C20_Witness ==
    /\ app_pc = AppComplete
    /\ layout.log = <<"add_metadata", "add_characters", "add_character_img",
                      "add_outline", "add_text", "success">>
    /\ Len(layout.imgs) = 2
    /\ Len(story.text.chapters) = 2
    /\ Len(story.outline.outlines) = 2

\* The Layout method that shows the result of stage x of run_app.
LayoutMethod(x) ==
    CASE x = "metadata" -> "add_metadata"
      [] x = "characters" -> "add_characters"
      [] x = "images" -> "add_character_img"
      [] x = "outline" -> "add_outline"
      [] x = "text" -> "add_text"

Shown(x) == \E j \in DOMAIN layout.log : layout.log[j] = LayoutMethod(x)

\* C21: in a run of run_app the Layout is given the result of a stage only
\* in a step taken when the stage's operation has returned (its field is
\* set; for the images every task of the batch has returned a result), and
\* every call of a stage is issued after the result of the stage before it
\* was shown.
C21_RenderedBetweenStages ==
    /\ [][layout' # layout =>
            \E j \in DOMAIN AppStages :
                LET x == AppStages[j]
                IN  /\ app_pc = AppWaiting(x)
                    /\ op = AppOp(x)
                    /\ phase = "idle"
                    /\ outcome = "returned"
                    /\ layout'.log[Len(layout.log) + 1] = LayoutMethod(x)
                    /\ x # "images" => story[x] # None
                    /\ x = "images" =>
                          /\ \A i \in DOMAIN tasks : tasks[i].st = "ok"
                          /\ Len(layout'.imgs)
                                = Len(story.characters.characters)]_vars
    /\ [](\A c \in calls :
            \A j \in 2..Len(AppStages) :
                c.stage = AppOp(AppStages[j]) => Shown(AppStages[j - 1]))

\* C21 witness: run_app has shown the images of two characters and is
\* about to start the outline stage.
C21_Witness ==
    /\ app_pc = AppCalling("outline")
    /\ Shown("images")
    /\ Len(layout.imgs) = 2
    /\ story.outline = None

\* C22: every external call carries a timeout, so an operation that was
\* invoked always ends, by returning or by raising, also when a call it
\* issued never responds.
C22_InvokedOperationEnds ==
    (phase # "idle") ~> (phase = "idle")

\* The index of the character the unit of work in position i is for.
IndexOfTask(i) == IF op = ImageBatch THEN i - 1 ELSE index

\* The image requests the unit of work in position i has issued.
ImageCallsOf(i) ==
    {c \in calls :
        /\ c.kind = "image"
        /\ c.inv = nops
        /\ c.pos = (IF op = ImageBatch THEN i ELSE 1)}

\* C23: every image request holds the fixed lead, the seven style
\* descriptors, and the fixed parameters n=1, 1024x1024, hd, dall-e-3; a
\* run of generate_image_async that got the description d from the model
\* has issued a request whose prompt ends with d as it is (one request per
\* task in the batch), and a run that returned has returned
\* (i, d, response) with that same d.
C23_PromptIsStylePhraseThenDescription ==
    /\ \A c \in calls :
          c.kind = "image" =>
              /\ c.params = [n |-> 1, size |-> "1024x1024",
                             model |-> "dall-e-3", quality |-> "hd"]
              /\ c.prompt.lead = "A children's book illustration in "
              /\ c.prompt.tail = " style. "
              /\ \A s \in {"whimsical", "colorful", "watercolor style",
                            "children's book illustration",
                            "cute and friendly", "detailed background",
                            "gentle color palette"} :
                    \E j \in DOMAIN c.prompt.style_text :
                        c.prompt.style_text[j] = s
              /\ c.prompt.res \in Descriptions(c.name.int)
    /\ op \in {ImageBatch, GenerateImage} =>
          \A i \in DOMAIN tasks :
              /\ tasks[i].st = "img" =>
                    \E c \in ImageCallsOf(i) : c.prompt.res = tasks[i].res
              /\ tasks[i].st = "ok" =>
                    /\ tasks[i].res[1] = IndexOfTask(i)
                    /\ tasks[i].res[3] = ImageResponse(IndexOfTask(i))
                    /\ \E c \in ImageCallsOf(i) :
                          c.prompt.res = tasks[i].res[2]
              /\ op = ImageBatch => Cardinality(ImageCallsOf(i)) <= 1

\* C23 witness: generate_image_async, run once for index 1, got the long
\* description and returned it with the response.
C23_Witness ==
    /\ ReturnedFrom(GenerateImage)
    /\ index = 1
    /\ tasks[1].st = "ok"
    /\ tasks[1].res[2] = LongDescription(1)
    /\ \E c \in calls : c.kind = "image"
                         /\ c.prompt = ImagePrompt(LongDescription(1))

\* The calls of kind k that the running invocation of generate_image issued.
WrapperCalls(k) ==
    {c \in calls : c.stage = GenerateImage /\ c.inv = nops /\ c.kind = k}

\* C24: one invocation of generate_image issues at most one description
\* call and at most one image request, whatever the calls raise; a failed
\* call is not followed by a second run of the coroutine.
C24_WrapperIssuesEachCallOnce ==
    op = GenerateImage =>
        /\ \A k \in {"llm", "image"} :
              /\ Cardinality(WrapperCalls(k)) <= 1
              /\ \A c \in WrapperCalls(k) : issued[c] <= 1
        /\ (WrapperCalls("llm") # {} /\ tasks[1].st = "err")
              => tasks[2].st = "new"

\* The chapter numbers of the outline repeat, or leave out a number between
\* 1 and the largest of them.
DuplicatesOrGaps(s) ==
    LET k == Len(s.outline.outlines)
        nos == {Entry(s, j).chapter : j \in 1..k}
    IN  \/ Cardinality(nos) < k
        \/ \E n \in ChapterNos :
              n \notin nos /\ \E c \in nos : n < c

\* C25: for an outline with duplicate or missing chapter numbers,
\* add_text_async that returned has issued one call per outline entry and
\* holds as many chapters as the outline has entries, each the record its
\* task returned, ascending by the outline's chapter number, and entries of
\* equal chapter number in their outline order, whatever the order of
\* completion.
C25_DuplicatesAndGapsKeptStable ==
    (ReturnedFrom("add_text_async") /\ DuplicatesOrGaps(story)) =>
        LET k == Len(story.outline.outlines)
            ch == story.text.chapters
            mine == {c \in calls : c.stage = "add_text_async"
                                     /\ c.inv = nops}
        IN  /\ Len(ch) = k
            /\ Cardinality(mine) = k
            /\ \A j \in 1..k :
                  \E c \in mine :
                      /\ c.pos = j
                      /\ c.name = IntVal(Entry(story, j).chapter)
                      /\ issued[c] = 1
            /\ \E f \in Orderings(k) :
                  /\ \A j \in 1..k : ch[j] = tasks[f[j]].res[2]
                  /\ \A a, b \in 1..k :
                        a < b =>
                          \/ Entry(story, f[a]).chapter
                                < Entry(story, f[b]).chapter
                          \/ /\ Entry(story, f[a]).chapter
                                  = Entry(story, f[b]).chapter
                             /\ f[a] < f[b]

\* C25 witness: add_text_async returned for an outline of two entries of
\* the same chapter number, the second call completed first, and the two
\* records differ.
C25_Witness ==
    /\ ReturnedFrom("add_text_async")
    /\ Len(story.outline.outlines) = 2
    /\ Entry(story, 1).chapter = Entry(story, 2).chapter
    /\ done = <<2, 1>>
    /\ Len(story.text.chapters) = 2
    /\ story.text.chapters[1] # story.text.chapters[2]

\* C26: a stage invoked on a Story whose field of that stage is already
\* set leaves the field as it was.
C26_SetFieldKeptByItsStage ==
    (op \in SingleCallStages \cup TextStages
        /\ pre[FieldOf(op)] # None)
        => story[FieldOf(op)] = pre[FieldOf(op)]

\* C27: after add_text raised, story.text holds none of the chapters that
\* the calls before the failing one returned.
C27_NoPartialListAfterFailure ==
    (RaisedFrom("add_text") /\ story.text # None) =>
        \A i \in DOMAIN tasks :
            tasks[i].st = "ok" =>
                \A j \in DOMAIN story.text.chapters :
                    story.text.chapters[j] # tasks[i].res

\* C28: every chapter that add_text or add_text_async committed has the
\* int chapter number of the outline entry it was generated for (so the
\* list of add_text_async is ascending by the stored chapter field).
C28_StoredChapterIsOutlineNumber ==
    (ReturnedFrom("add_text") \/ ReturnedFrom("add_text_async")) =>
        LET k == Len(story.outline.outlines)
            ch == story.text.chapters
        IN  /\ \E f \in Orderings(k) :
                  \A j \in 1..Len(ch) :
                      ch[j].chapter = IntVal(Entry(story, f[j]).chapter)
            /\ op = "add_text_async" =>
                  \A j \in 1..(Len(ch) - 1) :
                      /\ DOMAIN ch[j].chapter = {"int"}
                      /\ DOMAIN ch[j + 1].chapter = {"int"}
                      /\ ch[j].chapter.int <= ch[j + 1].chapter.int

\* The execution that has returned got, for every outline entry, the
\* response the earlier execution got for that entry.
SameResponses ==
    /\ first # NoFirst
    /\ op \in TextStages
    /\ phase = "idle"
    /\ outcome = "returned"
    /\ Records = first.records

\* C29: two executions of add_text_async on equal Stories that got the same
\* response for the same outline entry end with equal story.text.chapters,
\* whatever the two orders of completion.
C29_TextStageDeterministic ==
    (SameResponses /\ op = "add_text_async" /\ first.op = "add_text_async")
        => story.text.chapters = first.chapters

\* C29 witness: two executions on an outline whose first two entries have
\* the same chapter number, with the same responses (different for the two
\* entries), whose calls completed in different orders.
C29_Witness ==
    /\ SameResponses
    /\ op = "add_text_async"
    /\ first.op = "add_text_async"
    /\ Entry(story, 1).chapter = Entry(story, 2).chapter
    /\ Records[1] # Records[2]
    /\ first.done # done
    /\ Len(story.text.chapters) = Len(story.outline.outlines)

\* The response depends on the chapter number only: entries of the same
\* number got the same response.
ResponseByChapter ==
    \A i, j \in DOMAIN Records :
        Entry(story, i).chapter = Entry(story, j).chapter
            => Records[i] = Records[j]

\* C30: add_text and add_text_async, run on equal Stories with a model
\* whose response depends on the chapter number only, end with the same
\* story.text.chapters.
C30_SyncAndAsyncAgree ==
    (SameResponses /\ ResponseByChapter /\ first.op # op)
        => story.text.chapters = first.chapters

\* C31: when add_text_async or generate_all_character_images has raised,
\* every task of its batch has ended: none waits for a call and none is
\* still to start.
C31_NoTaskOutlivesFailedBatch ==
    (RaisedFrom("add_text_async") \/ RaisedFrom(ImageBatch)) =>
        \A i \in DOMAIN tasks : tasks[i].st \in {"ok", "err"}

\* C32: in generate_all_character_images a step that issues the description
\* call of a character ends with that call returned (the task waits for its
\* image request or has raised), and the description calls of all earlier
\* characters were issued before it: one at a time, in ascending index
\* order.
C32_DescriptionsOneAtATimeInOrder ==
    [][\A c \in calls' \ calls :
          (c.stage = ImageBatch /\ c.kind = "llm") =>
              /\ tasks'[c.pos].st \in {"img", "err"}
              /\ \A j \in 1..(c.pos - 1) :
                    \E d \in calls :
                        /\ d.stage = ImageBatch
                        /\ d.kind = "llm"
                        /\ d.inv = c.inv
                        /\ d.pos = j]_vars

\* C32 witness: the image requests of two characters are in flight at the
\* same time.
C32_Witness ==
    /\ op = ImageBatch
    /\ phase = "gather"
    /\ Len(tasks) >= 2
    /\ tasks[1].st = "img"
    /\ tasks[2].st = "img"

\* C33: in a run of run_app, once add_characters has run the Layout holds
\* one image column per character, in character order, and every image
\* given to add_character_img has an index that is a position of
\* character_img_cols, the column of that character; no image is given
\* before add_characters has run.
C33_ImageIndexIsAColumn ==
    LET cols == layout.character_img_cols
    IN  /\ Shown("characters") =>
              cols = [j \in 1..Len(story.characters.characters) |-> j - 1]
        /\ \A j \in DOMAIN layout.imgs :
              LET i == layout.imgs[j][1]
              IN  /\ Shown("characters")
                  /\ 0 <= i
                  /\ i < Len(cols)
                  /\ cols[i + 1] = i

\* C33 witness: run_app gave the images of two characters to the Layout,
\* the second into the second column.
C33_Witness ==
    /\ app_pc # NoApp
    /\ Len(layout.character_img_cols) = 2
    /\ Len(layout.imgs) = 2
    /\ layout.imgs[2][1] = 1

\* An operation or a run of run_app is under way.
Busy == phase # "idle" \/ app_pc.at \in {"call", "wait"}

\* The work left: the stages run_app has still to call and render, whether
\* an operation is waiting, and for every task 2 while it has not started
\* and 1 while it waits for a call.
RECURSIVE TaskWork(_)
TaskWork(ts) ==
    IF ts = <<>> THEN 0
    ELSE (CASE ts[1].st = "new" -> 2
            [] ts[1].st \in {"called", "img"} -> 1
            [] OTHER -> 0) + TaskWork(Tail(ts))

StagesLeft ==
    IF app_pc.at \in {"call", "wait"}
    THEN LET j == CHOOSE k \in DOMAIN AppStages : AppStages[k] = app_pc.stage
         IN  2 * (Len(AppStages) - j + 1) - (IF app_pc.at = "wait" THEN 1 ELSE 0)
    ELSE 0

MaxTasks == IF MaxOutline > MaxChars THEN MaxOutline + 2 ELSE MaxChars + 2

WorkLeft ==
    StagesLeft * (4 * MaxTasks + 4)
        + (IF phase # "idle" THEN 2 * MaxTasks + 1 ELSE 0)
        + TaskWork(tasks)

\* One of the program's steps or the end of a call can be taken: for each
\* position of the program, the guard of the action that leaves it (the
\* join's own conditions for the batches).
CanStep ==
    \/ phase = "llm" /\ op \in SingleCallStages            \* StageReturn
    \/ /\ phase = "loop" /\ op = "add_text"                 \* AddTextStep
       /\ Len(story.text.chapters) < Len(story.outline.outlines)
    \/ /\ op = "add_text_async"
       /\ \/ /\ phase = "gather"                            \* ChapterIssue,
             /\ \E i \in DOMAIN tasks :                     \* ChapterComplete
                   tasks[i].st \in {"new", "called"}
          \/ GatherRaiseReady                               \* GatherRaise
          \/ GatherReturnReady                      \* AddTextAsyncReturn
    \/ /\ op = ImageBatch
       /\ \/ /\ phase = "gather"                            \* ImageDescribe
             /\ \E i \in DOMAIN tasks : tasks[i].st = "new"
          \/ /\ phase = "gather"                            \* ImageComplete
             /\ \A i \in DOMAIN tasks : tasks[i].st # "new"
             /\ \E i \in DOMAIN tasks : tasks[i].st = "img"
          \/ GatherRaiseReady                               \* GatherRaise
          \/ GatherReturnReady                              \* ImagesReturn
    \/ /\ phase = "image" /\ op = GenerateImage
       /\ \/ tasks[1].st = "new"                            \* ImageAttempt
          \/ tasks[1].st = "err" /\ tasks[2].st = "new"
          \/ \E a \in 1..2 : tasks[a].st = "img"       \* ImageAttemptComplete
    \/ app_pc.at = "call" /\ phase = "idle"                 \* AppInvoke
    \/ /\ app_pc.at = "wait" /\ phase = "idle"             \* AppRender,
       /\ outcome \in {"returned", "raised"}                \* AppCrash

\* C34: when every external call comes to an end, an operation that was
\* invoked returns or raises and a run of run_app reaches the completion
\* message or ends with an error: while an operation or a run is under way
\* one of the program's steps or the end of a call is possible (no
\* deadlock; a join whose tasks have all finished can complete), and every
\* step then leaves less work, so under the fairness of SpecFair the end is
\* reached.
C34_EveryOperationAndRunEnds ==
    /\ [](Busy => CanStep)
    /\ [][Busy => WorkLeft' < WorkLeft]_vars

\* C34 witness: a run of run_app reached the completion message after a
\* text stage that joined two chapter tasks.
C34_Witness ==
    /\ app_pc = AppComplete
    /\ op = "add_text_async"
    /\ Len(tasks) = 2
    /\ done = <<2, 1>>

\* generate_image was called from inside a running event loop: both
\* run_until_complete calls refused to start the coroutine.
LoopWasRunning ==
    /\ tasks = <<Raised("RuntimeError"), Raised("RuntimeError")>>
    /\ WrapperCalls("llm") = {}

\* C35: generate_image called for a character of the Story, with an event
\* loop that is open, closed or not set, raises only when one of its calls
\* failed: if it has raised, it had issued a call.
C35_WrapperRunsWithAnyLoop ==
    ( /\ RaisedFrom(GenerateImage)
      /\ ValidIndex(story, index)
      /\ ~LoopWasRunning )
        => WrapperCalls("llm") # {}

\* C36: in a run of run_app a call of the image batch is issued by a Story
\* whose characters are set and whose outline and text are None, and the
\* outline call is issued in a step taken when the image batch has
\* returned, every one of its tasks ended.
C36_ImagesBetweenCharactersAndOutline ==
    /\ [](\A c \in calls :
            c.stage = ImageBatch =>
                /\ c.seen.characters # None
                /\ c.seen.outline = None
                /\ c.seen.text = None)
    /\ [][\A c \in calls' \ calls :
             c.stage = "add_outline_async" =>
                 /\ op = ImageBatch
                 /\ phase = "idle"
                 /\ outcome = "returned"
                 /\ \A i \in DOMAIN tasks : tasks[i].st = "ok"
                 /\ \A d \in calls : d.stage # "add_outline_async"]_vars

\* C36 witness: run_app issued the outline call after an image batch for
\* two characters.
C36_Witness ==
    /\ app_pc = AppWaiting("outline")
    /\ \E c \in calls : c.stage = "add_outline_async"
    /\ \E d \in calls :
          d.stage = ImageBatch /\ d.kind = "image" /\ d.pos = 2

\* C37: every model call sends the Story as it is at the moment of the
\* call, and in a run of run_app the characters call holds the metadata,
\* the outline call the metadata and the characters, and every chapter
\* call the metadata, the characters and the outline, each as the Story
\* holds it.
C37_PromptHoldsEarlierFields ==
    /\ [][\A c \in calls' \ calls :
             c.kind = "llm" => c.seen = story']_vars
    /\ [](\A c \in calls :
            LET has(f) == c.seen[f] # None /\ c.seen[f] = story[f]
            IN  /\ c.stage = "add_characters_async" => has("metadata")
                /\ c.stage = "add_outline_async" =>
                      has("metadata") /\ has("characters")
                /\ c.stage = "add_text_async" =>
                      /\ has("metadata")
                      /\ has("characters")
                      /\ has("outline"))

\* C37 witness: run_app issued the call for the second chapter of an
\* outline of two entries.
C37_Witness ==
    /\ app_pc = AppWaiting("text")
    /\ \E c \in calls :
          /\ c.stage = "add_text_async"
          /\ c.pos = 2
          /\ Len(c.seen.outline.outlines) = 2
          /\ c.seen.metadata # None
          /\ c.seen.characters # None

\* C38: the Layout run_app constructed has exactly 5 containers and the
\* four section headers "## Starring", "## Contents", "## Story" and
\* "## Logs".
C38_LayoutHasFiveContainers ==
    app_pc # NoApp =>
        /\ Len(layout.containers) = 5
        /\ {layout.headers[j].text : j \in DOMAIN layout.headers}
              = {"## Starring", "## Contents", "## Story", "## Logs"}
        /\ Len(layout.headers) = 4

====
